---------------------------- MODULE Spec2Model ----------------------------
(***************************************************************************)
(* Order execution and conditional (stop) order engine of the trading      *)
(* simulator backend.                                                      *)
(*                                                                         *)
(* The program keeps four MongoDB collections: users (cash_balance),       *)
(* portfolio (one document per position), orders (execution records) and   *)
(* advanced_orders (conditional orders).  Request handlers run as          *)
(* concurrent goroutines, the stop-order monitor as one background         *)
(* goroutine.  Every MongoDB call is one atomic step; the steps of one     *)
(* service call interleave with the steps of the others.                   *)
(*                                                                         *)
(* float64 amounts are modelled by exact numbers: prices and balances are  *)
(* integers, the average cost of a position is a reduced fraction          *)
(* <<numerator, denominator>>.                                             *)
(***************************************************************************)
EXTENDS Integers, Sequences, FiniteSets, Bags, TLC

\* ------------------------------------------------------------------ bounds

\* PlaceOrder calls in one behaviour, user-submitted and trigger-generated together.
MaxCalls == 2

\* BroadcastStock calls in one behaviour.
MaxUpdates == 3

\* capacity of a client's send channel in the model (the program's is 256)
SendCap == 2

\* the highest price, stop price and limit price of the trigger evaluations
MaxPrice == 3

\* the Register calls of one behaviour that reach their InsertOne
MaxRegistrations == 2

\* --------------------------------------------------------------- constants

\* AuthService.Register: user.CashBalance = 10000.0
InitialBalance == 10000
\* OrderService.GetCashBalance: the balance assumed when the user cannot be read
DefaultBalance == 10000

Accounts == {"u1"}
Symbols == {"AAPL"}
Sides == {"buy", "sell"}
\* PlaceOrderRequest: <<quantity, price>> of the requests (binding: min=1, min=0.01)
OrderShapes == {<<1, 4000>>, <<2, 3000>>}
\* StopOrderRequest: <<orderType, quantity, price, stopPrice, limitPrice>> of the requests
StopShapes == {<<"stop", 1, 5000, 5000, 0>>,
               <<"stop_limit", 1, 5000, 5000, 6000>>,
               <<"trailing_stop", 1, 5000, 5000, 0>>}
\* prices the feed reports
FeedPrices == {4000, 6000}

\* the conditional orders one behaviour registers (_id in order of creation)
OrderIds == {1}

\* the websocket connections one behaviour opens
Clients == {"c1", "c2"}

Workers == {"w1", "w2"}
\* the request handler goroutines serving POST /api/auth/register
Registrars == {"r1", "r2"}
\* usernames and emails of the register requests
Usernames == {"ann", "bob"}
Emails == {"a@x", "b@x"}
\* primitive.NewObjectID() of Register, in the order of the InsertOne calls
NewUserIds == <<"n1", "n2", "n3", "n4">>

\* the goroutines that call the MarketDataService: simulateMarketData, the monitor
\* (getCurrentPrice) and a request handler (GET /api/stocks/:symbol, GET /api/portfolio)
PriceCallers == {"simulator", "monitor", "handler"}
Monitor == "monitor"
Procs == Workers \cup {Monitor}

VARIABLES
    cash,         \* users collection: account -> cash_balance
    portfolio,    \* portfolio collection: a set of position documents
    orders,       \* orders collection: a bag of execution records
    advOrders,    \* advanced_orders collection: sequence of conditional orders, _id = index
    pc,           \* where each goroutine stands
    req,          \* the *models.Order a goroutine's PlaceOrder call works on
    pos,          \* the position document a goroutine read with FindOne
    res,          \* what the goroutine's PlaceOrder call returned
    eff,          \* which writes of the running PlaceOrder call took effect
    activeOrders, \* monitor: the orders of its snapshot still to visit (ids)
    currentPrice, \* monitor: the price it read for the order at hand
    ncalls,       \* PlaceOrder calls so far (the monitor's counted from its decision to fire)
    execCalls,    \* per conditional order: PlaceOrder calls the monitor made for it
    cancelOk,     \* conditional orders for which a CancelStopOrder returned nil
    useMockData,  \* MarketDataService.useMockData
    svcPc,        \* where each goroutine stands inside a call of the MarketDataService
    clients,      \* WebSocketHub.clients
    send,         \* per client: the messages in its buffered channel client.send
    sendClosed,   \* the clients whose send channel is closed
    conn,         \* per client: "none" before /ws, "open", "done" once ReadPump has ended
    taken,        \* per client: the messages WritePump has received from client.send
    joined,       \* per client: the updates the hub had processed when it registered it
    updates,      \* the stock updates the hub has taken from h.broadcast
    users,        \* users collection: _id, username and email of every document
    reg           \* per Register call in progress: its position, its user and its result

feedVars == <<useMockData, svcPc>>
hubVars == <<clients, send, sendClosed, conn, taken, joined, updates>>
authVars == <<users, reg>>

vars == <<cash, portfolio, orders, advOrders, pc, req, pos, res, eff,
          activeOrders, currentPrice, ncalls, execCalls, cancelOk, feedVars, hubVars, authVars>>

ledgerVars == <<cash, portfolio, orders>>
monVars == <<activeOrders, currentPrice>>
histVars == <<ncalls, execCalls, cancelOk>>


\* ------------------------------------------------------------ exact amounts

RECURSIVE GCD(_, _)
GCD(a, b) == IF b = 0 THEN a ELSE GCD(b, a % b)

\* the fraction n/d in lowest terms (d > 0, n >= 0)
Frac(n, d) == LET g == GCD(n, d) IN <<n \div g, d \div g>>

\* ------------------------------------------------------------------ records

NoPos == [id |-> 0, user |-> "", symbol |-> "", shares |-> 0, avg |-> <<0, 1>>]
NoReq == [user |-> "", symbol |-> "", type |-> "", quantity |-> 0, price |-> 0, src |-> 0]
NoEff == [rec |-> FALSE, pos |-> FALSE, bal |-> FALSE]
NoReg == [pc |-> "idle", username |-> "", email |-> "", res |-> ""]

\* executeBuyOrder / executeSellOrder: the steps of a PlaceOrder call
CallPcs == {"buy_cash", "buy_rec", "buy_find", "buy_pos", "buy_bal",
            "sell_find", "sell_rec", "sell_pos", "sell_bal"}

InCall(p) == pc[p] \in CallPcs

\* primitive.NewObjectID(): an _id no stored document and no goroutine holds
NewObjectID ==
    LET used == {r.id : r \in portfolio} \cup {pos[p].id : p \in Procs}
    IN  CHOOSE i \in 1..(Cardinality(used) + 1) :
            i \notin used /\ \A j \in 1..(i - 1) : j \in used

\* portfolioCollection.FindOne({user_id, symbol}): the matching documents
FindPositionsAnyAccount(u, s) == {r \in portfolio : r.symbol = s}
FindPositions(u, s) == {r \in portfolio : r.user = u /\ r.symbol = s}

\* the execution record InsertOne stores (src: the conditional order behind it, 0 for a user's)
ExecRecord(o) == [user |-> o.user, symbol |-> o.symbol, type |-> o.type,
                  quantity |-> o.quantity, price |-> o.price, src |-> o.src]

\* cost := order.Price * float64(order.Quantity)
CostWrong(o) == o.price
Cost(o) == o.price * o.quantity

\* revenue := order.Price * float64(order.Quantity)
Revenue(o) == o.price * o.quantity

\* GetCashBalance with the default balance only for a read that failed on a stored user
GetCashBalanceNoDefault(u, readFailed) ==
    IF u \notin DOMAIN cash THEN 0
    ELSE IF readFailed THEN DefaultBalance ELSE cash[u]

\* GetCashBalance: the stored balance, 10000.0 when the user cannot be read (the
\* FindOne fails, or finds no users document)
GetCashBalance(u, readFailed) ==
    IF readFailed \/ u \notin DOMAIN cash THEN DefaultBalance ELSE cash[u]

\* newAvg := (pos.AvgCost*float64(pos.Shares) + cost) / float64(pos.Shares + order.Quantity)
NewAvgUnweighted(p, o) == Frac(p.avg[1] + Cost(o) * p.avg[2], p.avg[2] * (p.shares + o.quantity))
NewAvg(p, o) == Frac(p.avg[1] * p.shares + Cost(o) * p.avg[2], p.avg[2] * (p.shares + o.quantity))

\* the portfolio after executeBuyOrder's write for a position read as p (NoPos: none found)
BuyWrite(p, o, newId) ==
    IF p = NoPos
    THEN portfolio \cup {[id |-> newId, user |-> o.user, symbol |-> o.symbol,
                          shares |-> o.quantity, avg |-> <<o.price, 1>>]}
    ELSE {IF r.id = p.id
          THEN [r EXCEPT !.shares = p.shares + o.quantity, !.avg = NewAvg(p, o)]
          ELSE r : r \in portfolio}

\* the portfolio after executeSellOrder's write for a position read as p
SellWriteKeepZero(p, o) ==
    {IF r.id = p.id THEN [r EXCEPT !.shares = p.shares - o.quantity] ELSE r : r \in portfolio}
SellWrite(p, o) ==
    IF p.shares - o.quantity = 0
    THEN {r \in portfolio : r.id # p.id}
    ELSE {IF r.id = p.id THEN [r EXCEPT !.shares = p.shares - o.quantity] ELSE r : r \in portfolio}

\* ------------------------------------------------------- PlaceOrder, by step

\* a return of PlaceOrder with result r
Return(p, r) ==
    /\ pc' = [pc EXCEPT ![p] = "ret"]
    /\ res' = [res EXCEPT ![p] = r]
    /\ pos' = [pos EXCEPT ![p] = NoPos]

Goto(p, label) ==
    /\ pc' = [pc EXCEPT ![p] = label]
    /\ UNCHANGED res

\* PlaceOrder's switch on order.Type
Dispatch(t) == IF t = "buy" THEN "buy_cash" ELSE IF t = "sell" THEN "sell_find" ELSE "ret"

\* OrderHandler.PlaceOrder: a bound and validated request enters OrderService.PlaceOrder
StartPlaceOrder(w, u, s, t, q, pr) ==
    /\ pc[w] = "idle"
    /\ ncalls < MaxCalls
    /\ ncalls' = ncalls + 1
    /\ req' = [req EXCEPT ![w] = [user |-> u, symbol |-> s, type |-> t,
                                  quantity |-> q, price |-> pr, src |-> 0]]
    /\ pc' = [pc EXCEPT ![w] = Dispatch(t)]
    /\ UNCHANGED <<ledgerVars, advOrders, pos, res, eff, monVars, execCalls, cancelOk, feedVars, hubVars, authVars>>

\* executeBuyOrder: cash := GetCashBalance; if cash < cost return "insufficient funds"
\* (readFailed: the FindOne inside GetCashBalance returned an error)
BuyCheckCash(p, readFailed) ==
    /\ pc[p] = "buy_cash"
    /\ IF GetCashBalance(req[p].user, readFailed) < Cost(req[p])
       THEN Return(p, "insufficient_funds")
       ELSE Goto(p, "buy_rec") /\ UNCHANGED pos
    /\ UNCHANGED <<ledgerVars, advOrders, req, eff, monVars, histVars, feedVars, hubVars, authVars>>

\* executeBuyOrder: orderCollection.InsertOne(order)
BuyInsertOrder(p) ==
    /\ pc[p] = "buy_rec"
    /\ orders' = orders (+) SetToBag({ExecRecord(req[p])})
    /\ eff' = [eff EXCEPT ![p].rec = TRUE]
    /\ Goto(p, "buy_find")
    /\ UNCHANGED <<cash, portfolio, advOrders, req, pos, monVars, histVars, feedVars, hubVars, authVars>>

\* executeBuyOrder: portfolioCollection.FindOne(...).Decode(&pos)
BuyFindPos(p) ==
    /\ pc[p] = "buy_find"
    /\ LET found == FindPositions(req[p].user, req[p].symbol)
       IN  IF found = {}
           THEN pos' = [pos EXCEPT ![p] = NoPos]
           ELSE \E r \in found : pos' = [pos EXCEPT ![p] = r]
    /\ Goto(p, "buy_pos")
    /\ UNCHANGED <<ledgerVars, advOrders, req, eff, monVars, histVars, feedVars, hubVars, authVars>>

\* executeBuyOrder: InsertOne(pos) for a new position, UpdateOne({_id}) for a held one
BuyWritePos(p) ==
    /\ pc[p] = "buy_pos"
    /\ portfolio' = BuyWrite(pos[p], req[p], NewObjectID)
    /\ eff' = [eff EXCEPT ![p].pos = (pos[p] = NoPos \/ \E r \in portfolio : r.id = pos[p].id)]
    /\ Goto(p, "buy_bal")
    /\ UNCHANGED <<cash, orders, advOrders, req, pos, monVars, histVars, feedVars, hubVars, authVars>>

\* executeBuyOrder: userCollection.UpdateOne({_id}, $inc cash_balance: -cost); it
\* matches nothing and returns nil when no users document has the _id
BuyDebit(p) ==
    /\ pc[p] = "buy_bal"
    /\ cash' = IF req[p].user \in DOMAIN cash
               THEN [cash EXCEPT ![req[p].user] = @ - Cost(req[p])]
               ELSE cash
    /\ eff' = [eff EXCEPT ![p].bal = (req[p].user \in DOMAIN cash)]
    /\ Return(p, "ok")
    /\ UNCHANGED <<portfolio, orders, advOrders, req, monVars, histVars, feedVars, hubVars, authVars>>

\* executeSellOrder: what the checks after FindOne say, for the documents found and
\* the one decoded (r): "you own no ..." / "insufficient shares: have .., want .."
SellVerdictNoShareCheck(found, r, o) ==
    IF found = {} THEN "no_position" ELSE "ok"
SellVerdictNoDocumentCheck(found, r, o) ==
    IF r.shares < o.quantity THEN "insufficient_shares" ELSE "ok"
SellVerdict(found, r, o) ==
    IF found = {} THEN "no_position"
    ELSE IF r.shares < o.quantity THEN "insufficient_shares" ELSE "ok"

\* executeSellOrder: FindOne on portfolio and the checks on its result
SellFindPos(p) ==
    /\ pc[p] = "sell_find"
    /\ LET found == FindPositions(req[p].user, req[p].symbol)
       IN  \E r \in (IF found = {} THEN {NoPos} ELSE found) :
               IF SellVerdict(found, r, req[p]) = "ok"
               THEN Goto(p, "sell_rec") /\ pos' = [pos EXCEPT ![p] = r]
               ELSE Return(p, SellVerdict(found, r, req[p]))
    /\ UNCHANGED <<ledgerVars, advOrders, req, eff, monVars, histVars, feedVars, hubVars, authVars>>

\* executeSellOrder: orderCollection.InsertOne(order)
SellInsertOrder(p) ==
    /\ pc[p] = "sell_rec"
    /\ orders' = orders (+) SetToBag({ExecRecord(req[p])})
    /\ eff' = [eff EXCEPT ![p].rec = TRUE]
    /\ Goto(p, "sell_pos")
    /\ UNCHANGED <<cash, portfolio, advOrders, req, pos, monVars, histVars, feedVars, hubVars, authVars>>

\* executeSellOrder: DeleteOne({_id}) when newShares == 0, else UpdateOne({_id}, $set shares)
SellWritePos(p) ==
    /\ pc[p] = "sell_pos"
    /\ portfolio' = SellWrite(pos[p], req[p])
    /\ eff' = [eff EXCEPT ![p].pos = (\E r \in portfolio : r.id = pos[p].id)]
    /\ Goto(p, "sell_bal")
    /\ UNCHANGED <<cash, orders, advOrders, req, pos, monVars, histVars, feedVars, hubVars, authVars>>

\* executeSellOrder: userCollection.UpdateOne({_id}, $inc cash_balance: revenue); it
\* matches nothing and returns nil when no users document has the _id
SellCredit(p) ==
    /\ pc[p] = "sell_bal"
    /\ cash' = IF req[p].user \in DOMAIN cash
               THEN [cash EXCEPT ![req[p].user] = @ + Revenue(req[p])]
               ELSE cash
    /\ eff' = [eff EXCEPT ![p].bal = (req[p].user \in DOMAIN cash)]
    /\ Return(p, "ok")
    /\ UNCHANGED <<portfolio, orders, advOrders, req, monVars, histVars, feedVars, hubVars, authVars>>

\* a MongoDB call of executeBuyOrder / executeSellOrder returns an error: return err
DbFault(p) ==
    /\ pc[p] \in CallPcs \ {"buy_cash"}
    /\ Return(p, "db_error")
    /\ UNCHANGED <<ledgerVars, advOrders, req, eff, monVars, histVars, feedVars, hubVars, authVars>>

\* OrderHandler.PlaceOrder: the response is written, the goroutine ends
Respond(w) ==
    /\ w \in Workers
    /\ pc[w] = "ret"
    /\ pc' = [pc EXCEPT ![w] = "idle"]
    /\ req' = [req EXCEPT ![w] = NoReq]
    /\ res' = [res EXCEPT ![w] = ""]
    /\ eff' = [eff EXCEPT ![w] = NoEff]
    /\ UNCHANGED <<ledgerVars, advOrders, pos, monVars, histVars, feedVars, hubVars, authVars>>

\* ------------------------------------------------ conditional order registry

\* CreateStopOrder without the FindOne on portfolio for a sell-side order
CreateStopOrderNoShareCheck(u, s, t, kind, q, price, stop, limit) ==
    /\ Len(advOrders) + 1 \in OrderIds
    /\ advOrders' = Append(advOrders,
           [user |-> u, symbol |-> s, type |-> t, orderType |-> kind, quantity |-> q,
            price |-> price, stopPrice |-> stop, limitPrice |-> limit, status |-> "active"])
    /\ UNCHANGED <<ledgerVars, pc, req, pos, res, eff, monVars, histVars, feedVars, hubVars, authVars>>

\* CreateStopOrder that sets the cost of a buy-side order aside from the balance
CreateStopOrderReserving(u, s, t, kind, q, price, stop, limit) ==
    /\ Len(advOrders) + 1 \in OrderIds
    /\ t = "sell" => \E r \in FindPositions(u, s) : ~(r.shares < q)
    /\ advOrders' = Append(advOrders,
           [user |-> u, symbol |-> s, type |-> t, orderType |-> kind, quantity |-> q,
            price |-> price, stopPrice |-> stop, limitPrice |-> limit, status |-> "active"])
    /\ cash' = [cash EXCEPT ![u] = IF t = "buy" THEN @ - q * stop ELSE @]
    /\ UNCHANGED <<portfolio, orders, pc, req, pos, res, eff, monVars, histVars, feedVars, hubVars, authVars>>

\* AdvancedOrderHandler.CreateStopOrder + AdvancedOrderService.CreateStopOrder:
\* a sell-side order needs a position document holding the quantity; then InsertOne
CreateStopOrder(u, s, t, kind, q, price, stop, limit) ==
    /\ Len(advOrders) + 1 \in OrderIds
    /\ t = "sell" => \E r \in FindPositions(u, s) : ~(r.shares < q)
    /\ advOrders' = Append(advOrders,
           [user |-> u, symbol |-> s, type |-> t, orderType |-> kind, quantity |-> q,
            price |-> price, stopPrice |-> stop, limitPrice |-> limit, status |-> "active"])
    /\ UNCHANGED <<ledgerVars, pc, req, pos, res, eff, monVars, histVars, feedVars, hubVars, authVars>>

\* AdvancedOrderHandler.CancelOrder + AdvancedOrderService.CancelStopOrder:
\* UpdateOne({_id}, $set status: "cancelled"), whatever the status was; returns nil
\* (an UpdateOne that returns an error changes nothing and is no step)
CancelStopOrder(id) ==
    /\ id \in 1..Len(advOrders)
    /\ advOrders' = [advOrders EXCEPT ![id].status = "cancelled"]
    /\ cancelOk' = cancelOk \cup {id}
    /\ UNCHANGED <<ledgerVars, pc, req, pos, res, eff, monVars, ncalls, execCalls, feedVars, hubVars, authVars>>

\* ------------------------------------------------------------ trigger monitor

\* CheckAndExecuteStopOrders: Find({status: "active", order_type: $in [...]}), cursor.All
ActiveSnapshotAnyStatus ==
    SelectSeq([i \in 1..Len(advOrders) |-> i],
              LAMBDA i : advOrders[i].orderType \in {"stop", "stop_limit", "trailing_stop"})
ActiveSnapshot ==
    SelectSeq([i \in 1..Len(advOrders) |-> i],
              LAMBDA i : /\ advOrders[i].status = "active"
                         /\ advOrders[i].orderType \in {"stop", "stop_limit", "trailing_stop"})

\* shouldTriggerStopOrder with strict comparisons for stop and trailing_stop
shouldTriggerStrict(order, price) ==
    CASE order.orderType = "stop" ->
            IF order.type = "sell" THEN price < order.stopPrice ELSE price > order.stopPrice
      [] order.orderType = "stop_limit" ->
            IF order.type = "sell"
            THEN price <= order.stopPrice /\ price >= order.limitPrice
            ELSE price >= order.stopPrice /\ price <= order.limitPrice
      [] order.orderType = "trailing_stop" ->
            IF order.type = "sell" THEN price < order.stopPrice ELSE price > order.stopPrice
      [] OTHER -> FALSE

\* shouldTriggerStopOrder with no limit test for an order whose limit price is 0
shouldTriggerUnlessNoLimit(order, price) ==
    CASE order.orderType = "stop" ->
            IF order.type = "sell" THEN price <= order.stopPrice ELSE price >= order.stopPrice
      [] order.orderType = "stop_limit" ->
            IF order.type = "sell"
            THEN price <= order.stopPrice /\ price >= order.limitPrice
            ELSE price >= order.stopPrice
                 /\ (order.limitPrice = 0 \/ price <= order.limitPrice)
      [] order.orderType = "trailing_stop" ->
            IF order.type = "sell" THEN price <= order.stopPrice ELSE price >= order.stopPrice
      [] OTHER -> FALSE

\* shouldTriggerStopOrder(order, currentPrice)
shouldTriggerStopOrder(order, price) ==
    CASE order.orderType = "stop" ->
            IF order.type = "sell" THEN price <= order.stopPrice ELSE price >= order.stopPrice
      [] order.orderType = "stop_limit" ->
            IF order.type = "sell"
            THEN price <= order.stopPrice /\ price >= order.limitPrice
            ELSE price >= order.stopPrice /\ price <= order.limitPrice
      [] order.orderType = "trailing_stop" ->
            IF order.type = "sell" THEN price <= order.stopPrice ELSE price >= order.stopPrice
      [] OTHER -> FALSE

\* the monitor after the order at hand: the next order of the snapshot, or the tick ends
NextOrder(rest) == IF rest = <<>> THEN "idle" ELSE "mon_loop"

\* monitorStopOrders: the ticker fires, CheckAndExecuteStopOrders takes its snapshot
\* (a tick that finds no active order changes nothing)
MonTick ==
    /\ pc[Monitor] = "idle"
    /\ ActiveSnapshot # <<>>
    /\ activeOrders' = ActiveSnapshot
    /\ pc' = [pc EXCEPT ![Monitor] = "mon_loop"]
    /\ UNCHANGED <<ledgerVars, advOrders, req, pos, res, eff, currentPrice, histVars, feedVars, hubVars, authVars>>

\* CheckAndExecuteStopOrders: shouldTriggerStopOrder on the price getCurrentPrice gave
MonDecide(price) ==
    /\ pc[Monitor] = "mon_loop"
    /\ IF shouldTriggerStopOrder(advOrders[Head(activeOrders)], price)
       THEN /\ ncalls < MaxCalls
            /\ ncalls' = ncalls + 1
            /\ currentPrice' = price
            /\ pc' = [pc EXCEPT ![Monitor] = "mon_mark"]
            /\ UNCHANGED activeOrders
       ELSE /\ activeOrders' = Tail(activeOrders)
            /\ pc' = [pc EXCEPT ![Monitor] = NextOrder(Tail(activeOrders))]
            /\ UNCHANGED <<currentPrice, ncalls>>
    /\ UNCHANGED <<ledgerVars, advOrders, req, pos, res, eff, execCalls, cancelOk, hubVars, authVars>>

\* getCurrentPrice -> GetStockPrice: the real API answered with the price
MonEvaluate(price) ==
    /\ MonDecide(price)
    /\ useMockData' = FALSE
    /\ UNCHANGED svcPc

\* getCurrentPrice -> GetStockPrice: the real API failed (or is not asked while mock
\* data is in use); the price is getMockStockPrice's and no error is returned
MonEvaluateMock(price) ==
    /\ MonDecide(price)
    /\ useMockData' = TRUE
    /\ UNCHANGED svcPc

\* executeStopOrder with executionOrder.Price taken from the order's own price field
MonMarkTriggeredAtOrderPrice ==
    /\ pc[Monitor] = "mon_mark"
    /\ LET id == Head(activeOrders)
           o == advOrders[id]
       IN  /\ advOrders' = [advOrders EXCEPT ![id].status = "triggered",
                                             ![id].price = currentPrice]
           /\ req' = [req EXCEPT ![Monitor] =
                         [user |-> o.user, symbol |-> o.symbol, type |-> o.type,
                          quantity |-> o.quantity, price |-> o.price, src |-> id]]
           /\ pc' = [pc EXCEPT ![Monitor] = Dispatch(o.type)]
           /\ res' = [res EXCEPT ![Monitor] =
                         IF Dispatch(o.type) = "ret" THEN "invalid_order_type" ELSE @]
           /\ execCalls' = [execCalls EXCEPT ![id] = @ + 1]
    /\ UNCHANGED <<ledgerVars, pos, eff, monVars, ncalls, cancelOk, feedVars, hubVars, authVars>>

\* executeStopOrder without the UpdateOne that stores the status and the price
MonMarkTriggeredNoStatus ==
    /\ pc[Monitor] = "mon_mark"
    /\ LET id == Head(activeOrders)
           o == advOrders[id]
       IN  /\ req' = [req EXCEPT ![Monitor] =
                         [user |-> o.user, symbol |-> o.symbol, type |-> o.type,
                          quantity |-> o.quantity, price |-> currentPrice, src |-> id]]
           /\ pc' = [pc EXCEPT ![Monitor] = Dispatch(o.type)]
           /\ res' = [res EXCEPT ![Monitor] =
                         IF Dispatch(o.type) = "ret" THEN "invalid_order_type" ELSE @]
           /\ execCalls' = [execCalls EXCEPT ![id] = @ + 1]
    /\ UNCHANGED <<ledgerVars, advOrders, pos, eff, monVars, ncalls, cancelOk, feedVars, hubVars, authVars>>

\* executeStopOrder: UpdateOne({_id}, $set status: "triggered", price), whatever the
\* status was, then orderService.PlaceOrder(executionOrder)
MonMarkTriggered ==
    /\ pc[Monitor] = "mon_mark"
    /\ LET id == Head(activeOrders)
           o == advOrders[id]
       IN  /\ advOrders' = [advOrders EXCEPT ![id].status = "triggered",
                                             ![id].price = currentPrice]
           /\ req' = [req EXCEPT ![Monitor] =
                         [user |-> o.user, symbol |-> o.symbol, type |-> o.type,
                          quantity |-> o.quantity, price |-> currentPrice, src |-> id]]
           /\ pc' = [pc EXCEPT ![Monitor] = Dispatch(o.type)]
           /\ res' = [res EXCEPT ![Monitor] =
                         IF Dispatch(o.type) = "ret" THEN "invalid_order_type" ELSE @]
           /\ execCalls' = [execCalls EXCEPT ![id] = @ + 1]
    /\ UNCHANGED <<ledgerVars, pos, eff, monVars, ncalls, cancelOk, feedVars, hubVars, authVars>>

\* executeStopOrder: the UpdateOne returned an error: log it and return
MonMarkFault ==
    /\ pc[Monitor] = "mon_mark"
    /\ pc' = [pc EXCEPT ![Monitor] = NextOrder(Tail(activeOrders))]
    /\ activeOrders' = Tail(activeOrders)
    /\ currentPrice' = 0
    /\ UNCHANGED <<ledgerVars, advOrders, req, pos, res, eff, histVars, feedVars, hubVars, authVars>>

\* executeStopOrder: PlaceOrder returned, its result is logged; on to the next order
MonAfterExecute ==
    /\ pc[Monitor] = "ret"
    /\ pc' = [pc EXCEPT ![Monitor] = NextOrder(Tail(activeOrders))]
    /\ activeOrders' = Tail(activeOrders)
    /\ currentPrice' = 0
    /\ req' = [req EXCEPT ![Monitor] = NoReq]
    /\ res' = [res EXCEPT ![Monitor] = ""]
    /\ eff' = [eff EXCEPT ![Monitor] = NoEff]
    /\ UNCHANGED <<ledgerVars, advOrders, pos, histVars, feedVars, hubVars, authVars>>

\* ------------------------------------------------------------ specification

Init ==
    /\ cash = [u \in Accounts |-> InitialBalance]
    /\ portfolio = {}
    /\ orders = EmptyBag
    /\ advOrders = <<>>
    /\ pc = [p \in Procs |-> "idle"]
    /\ req = [p \in Procs |-> NoReq]
    /\ pos = [p \in Procs |-> NoPos]
    /\ res = [p \in Procs |-> ""]
    /\ eff = [p \in Procs |-> NoEff]
    /\ activeOrders = <<>>
    /\ currentPrice = 0
    /\ ncalls = 0
    /\ execCalls = [i \in OrderIds |-> 0]
    /\ cancelOk = {}
    /\ useMockData = FALSE
    /\ svcPc = [g \in PriceCallers |-> "idle"]
    /\ clients = {}
    /\ send = [c \in Clients |-> <<>>]
    /\ sendClosed = {}
    /\ conn = [c \in Clients |-> "none"]
    /\ taken = [c \in Clients |-> <<>>]
    /\ joined = [c \in Clients |-> 0]
    /\ updates = 0
    /\ users = {[id |-> u, username |-> u, email |-> u] : u \in DOMAIN cash}
    /\ reg = [r \in Registrars |-> NoReg]

\* a request handler takes a PlaceOrder request
Request ==
    \E w \in Workers, u \in Accounts, s \in Symbols, t \in Sides, sh \in OrderShapes :
        StartPlaceOrder(w, u, s, t, sh[1], sh[2])

\* a goroutine inside PlaceOrder makes its next MongoDB call, which succeeds
Step(p) ==
    \/ BuyCheckCash(p, FALSE)
    \/ BuyInsertOrder(p)
    \/ BuyFindPos(p)
    \/ BuyWritePos(p)
    \/ BuyDebit(p)
    \/ SellFindPos(p)
    \/ SellInsertOrder(p)
    \/ SellWritePos(p)
    \/ SellCredit(p)

\* a goroutine's next MongoDB call returns an error
Fault(p) ==
    \/ BuyCheckCash(p, TRUE)
    \/ DbFault(p)

Registry ==
    \/ \E u \in Accounts, s \in Symbols, t \in Sides, sh \in StopShapes :
          CreateStopOrder(u, s, t, sh[1], sh[2], sh[3], sh[4], sh[5])
    \/ \E id \in OrderIds : CancelStopOrder(id)

Next ==
    \/ Request
    \/ \E p \in Procs : Step(p)
    \/ \E p \in Procs : Fault(p)
    \/ \E w \in Workers : Respond(w)
    \/ Registry
    \/ MonTick
    \/ \E price \in FeedPrices : MonEvaluate(price)
    \/ MonMarkTriggered
    \/ MonMarkFault
    \/ MonAfterExecute

Spec == Init /\ [][Next]_vars

\* The same program while no MongoDB call returns an error.
NextNoFault ==
    \/ Request
    \/ \E p \in Procs : Step(p)
    \/ \E w \in Workers : Respond(w)
    \/ Registry
    \/ MonTick
    \/ \E price \in FeedPrices : MonEvaluate(price)
    \/ MonMarkTriggered
    \/ MonAfterExecute

SpecNoFault == Init /\ [][NextNoFault]_vars

\* no goroutine is inside PlaceOrder
Quiet == \A p \in Procs : ~InCall(p)

\* The same program while no MongoDB call returns an error and the PlaceOrder calls
\* run one after the other: a call starts only when no other is running.
NextSeq ==
    \/ Quiet /\ Request
    \/ \E p \in Procs : Step(p)
    \/ \E w \in Workers : Respond(w)
    \/ Registry
    \/ MonTick
    \/ \E price \in FeedPrices : MonEvaluate(price)
    \/ Quiet /\ MonMarkTriggered
    \/ MonAfterExecute

SpecSeq == Init /\ [][NextSeq]_vars

\* The same program, no MongoDB call returning an error, with the requests and feed
\* prices the handlers' bindings and the feed's parser let through or turn down.

\* a side no handler knows
AnySides == Sides \cup {"hold"}
\* PlaceOrderRequest: <<quantity, price>> the binding (min=1, min=0.01) turns down
BadOrderShapes == {<<0, 4000>>, <<1, 0>>}
\* StopOrderRequest: orderType is only `required`
AnyStopShapes == StopShapes \cup {<<"limit", 1, 5000, 5000, 0>>}
\* parsePrice: any number the quote holds, 0 included
AnyFeedPrices == FeedPrices \cup {0}

\* OrderHandler.PlaceOrder: ShouldBindJSON fails or the type is neither buy nor sell:
\* 400, OrderService.PlaceOrder is not called
RejectPlaceOrder(w, u, s, t, q, pr) ==
    /\ pc[w] = "idle"
    /\ q < 1 \/ pr <= 0 \/ t \notin Sides
    /\ req' = [req EXCEPT ![w] = [user |-> u, symbol |-> s, type |-> t,
                                  quantity |-> q, price |-> pr, src |-> 0]]
    /\ pc' = [pc EXCEPT ![w] = "ret"]
    /\ res' = [res EXCEPT ![w] = "invalid_request"]
    /\ UNCHANGED <<ledgerVars, advOrders, pos, eff, monVars, histVars, feedVars, hubVars, authVars>>

RequestRejected ==
    \E w \in Workers, u \in Accounts, s \in Symbols, t \in AnySides,
       sh \in OrderShapes \cup BadOrderShapes :
        RejectPlaceOrder(w, u, s, t, sh[1], sh[2])

RegistryAny ==
    \/ \E u \in Accounts, s \in Symbols, t \in AnySides, sh \in AnyStopShapes :
          CreateStopOrder(u, s, t, sh[1], sh[2], sh[3], sh[4], sh[5])
    \/ \E id \in OrderIds : CancelStopOrder(id)

NextInputs ==
    \/ Request
    \/ RequestRejected
    \/ \E p \in Procs : Step(p)
    \/ \E w \in Workers : Respond(w)
    \/ RegistryAny
    \/ MonTick
    \/ \E price \in AnyFeedPrices : MonEvaluate(price)
    \/ MonMarkTriggered
    \/ MonAfterExecute

SpecInputs == Init /\ [][NextInputs]_vars

\* Two registered accounts and the request handlers alone, no MongoDB call returning
\* an error: u1 has bought 2 AAPL at 3000 before, u2 has not traded yet.
TwoAccounts == {"u1", "u2"}

EarlierBuy == [user |-> "u1", symbol |-> "AAPL", type |-> "buy",
               quantity |-> 2, price |-> 3000, src |-> 0]

InitPair ==
    /\ cash = [u \in TwoAccounts |->
                  IF u = EarlierBuy.user THEN InitialBalance - Cost(EarlierBuy)
                  ELSE InitialBalance]
    /\ portfolio = {[id |-> 1, user |-> EarlierBuy.user, symbol |-> EarlierBuy.symbol,
                     shares |-> EarlierBuy.quantity, avg |-> <<EarlierBuy.price, 1>>]}
    /\ orders = SetToBag({ExecRecord(EarlierBuy)})
    /\ advOrders = <<>>
    /\ pc = [p \in Procs |-> "idle"]
    /\ req = [p \in Procs |-> NoReq]
    /\ pos = [p \in Procs |-> NoPos]
    /\ res = [p \in Procs |-> ""]
    /\ eff = [p \in Procs |-> NoEff]
    /\ activeOrders = <<>>
    /\ currentPrice = 0
    /\ ncalls = 0
    /\ execCalls = [i \in OrderIds |-> 0]
    /\ cancelOk = {}
    /\ useMockData = FALSE
    /\ svcPc = [g \in PriceCallers |-> "idle"]
    /\ clients = {}
    /\ send = [c \in Clients |-> <<>>]
    /\ sendClosed = {}
    /\ conn = [c \in Clients |-> "none"]
    /\ taken = [c \in Clients |-> <<>>]
    /\ joined = [c \in Clients |-> 0]
    /\ updates = 0
    /\ users = {[id |-> u, username |-> u, email |-> u] : u \in DOMAIN cash}
    /\ reg = [r \in Registrars |-> NoReg]

RequestPair ==
    \E w \in Workers, u \in TwoAccounts, s \in Symbols, t \in Sides, sh \in OrderShapes :
        StartPlaceOrder(w, u, s, t, sh[1], sh[2])

NextPair ==
    \/ RequestPair
    \/ \E w \in Workers : Step(w)
    \/ \E w \in Workers : Respond(w)

SpecPair == InitPair /\ [][NextPair]_vars

\* The trigger monitor alone, over one conditional order of every kind and side with
\* every stop and limit price up to MaxPrice, registered by an account that bought
\* 2 shares before; every database call succeeds.
TriggerKinds == {"stop", "stop_limit", "trailing_stop"}
\* StopOrderRequest.StopPrice (binding: min=0.01)
StopPrices == 1..MaxPrice
\* StopOrderRequest.LimitPrice (binding: omitempty; 0 when omitted)
LimitPrices == 0..MaxPrice
\* prices the feed reports to the monitor
TriggerPrices == 0..MaxPrice

InitTrigger ==
    /\ cash = [u \in Accounts |-> InitialBalance - Cost(EarlierBuy)]
    /\ portfolio = {[id |-> 1, user |-> EarlierBuy.user, symbol |-> EarlierBuy.symbol,
                     shares |-> EarlierBuy.quantity, avg |-> <<EarlierBuy.price, 1>>]}
    /\ orders = SetToBag({ExecRecord(EarlierBuy)})
    /\ \E t \in Sides, kind \in TriggerKinds, stop \in StopPrices, limit \in LimitPrices :
          advOrders = <<[user |-> EarlierBuy.user, symbol |-> EarlierBuy.symbol,
                         type |-> t, orderType |-> kind, quantity |-> 1,
                         price |-> stop, stopPrice |-> stop, limitPrice |-> limit,
                         status |-> "active"]>>
    /\ pc = [p \in Procs |-> "idle"]
    /\ req = [p \in Procs |-> NoReq]
    /\ pos = [p \in Procs |-> NoPos]
    /\ res = [p \in Procs |-> ""]
    /\ eff = [p \in Procs |-> NoEff]
    /\ activeOrders = <<>>
    /\ currentPrice = 0
    /\ ncalls = 0
    /\ execCalls = [i \in OrderIds |-> 0]
    /\ cancelOk = {}
    /\ useMockData = FALSE
    /\ svcPc = [g \in PriceCallers |-> "idle"]
    /\ clients = {}
    /\ send = [c \in Clients |-> <<>>]
    /\ sendClosed = {}
    /\ conn = [c \in Clients |-> "none"]
    /\ taken = [c \in Clients |-> <<>>]
    /\ joined = [c \in Clients |-> 0]
    /\ updates = 0
    /\ users = {[id |-> u, username |-> u, email |-> u] : u \in DOMAIN cash}
    /\ reg = [r \in Registrars |-> NoReg]

NextTrigger ==
    \/ MonTick
    \/ \E price \in TriggerPrices : MonEvaluate(price)
    \/ MonMarkTriggered
    \/ Step(Monitor)
    \/ MonAfterExecute

SpecTrigger == InitTrigger /\ [][NextTrigger]_vars

\* Requests that carry the id of an account with no users document, run one after
\* the other, every MongoDB call succeeding (a FindOne that finds nothing aside).
UnknownAccount == "u0"
\* <<quantity, price>> of these requests: costs below and above the default balance
UnknownShapes == OrderShapes \cup {<<3, 4000>>}

RequestUnknown ==
    \E w \in Workers, s \in Symbols, t \in Sides, sh \in UnknownShapes :
        StartPlaceOrder(w, UnknownAccount, s, t, sh[1], sh[2])

NextUnknown ==
    \/ Quiet /\ RequestUnknown
    \/ \E w \in Workers : Step(w)
    \/ \E w \in Workers : Respond(w)

SpecUnknown == Init /\ [][NextUnknown]_vars

\* AdvancedOrderHandler.CancelOrder for an authenticated caller: the userID is taken
\* from the context and not passed on; the service gets the id of the path
CancelOrder(caller, id) ==
    /\ caller \in TwoAccounts
    /\ CancelStopOrder(id)

\* a cancel request for a conditional order from an account that did not create it
CancelByOther ==
    \E id \in OrderIds, caller \in TwoAccounts :
        /\ id \in 1..Len(advOrders)
        /\ caller # advOrders[id].user
        /\ CancelOrder(caller, id)

\* The same program, no MongoDB call returning an error, while every cancel request
\* comes from an account other than the one that created the order.
NextForeign ==
    \/ Request
    \/ \E p \in Procs : Step(p)
    \/ \E w \in Workers : Respond(w)
    \/ \E u \in Accounts, s \in Symbols, t \in Sides, sh \in StopShapes :
          CreateStopOrder(u, s, t, sh[1], sh[2], sh[3], sh[4], sh[5])
    \/ CancelByOther
    \/ MonTick
    \/ \E price \in FeedPrices : MonEvaluate(price)
    \/ MonMarkTriggered
    \/ MonAfterExecute

SpecForeign == Init /\ [][NextForeign]_vars

\* The trigger monitor and the cancel requests over one stored conditional order,
\* every database call succeeding. monitorStopOrders runs in its own goroutine on a
\* 10 s ticker that is never stopped, so every step of the monitor that stays possible
\* is taken in the end; nothing obliges a client to send a cancel request.
NextLive ==
    \/ NextTrigger
    \/ \E id \in OrderIds : CancelStopOrder(id)

MonitorStep ==
    \/ MonTick
    \/ \E price \in TriggerPrices : MonEvaluate(price)
    \/ MonMarkTriggered
    \/ Step(Monitor)
    \/ MonAfterExecute

SpecLive == InitTrigger /\ [][NextLive]_vars /\ WF_vars(MonitorStep)

\* The same program, no MongoDB call returning an error, with a real quote API that
\* can fail.

\* getMockStockPrice: the mock price after some +-2% moves
MockPrices == {4000, 6000}

NextFeed ==
    \/ Request
    \/ \E p \in Procs : Step(p)
    \/ \E w \in Workers : Respond(w)
    \/ Registry
    \/ MonTick
    \/ \E price \in FeedPrices : MonEvaluate(price)
    \/ \E price \in MockPrices : MonEvaluateMock(price)
    \/ MonMarkTriggered
    \/ MonAfterExecute

SpecFeed == Init /\ [][NextFeed]_vars

\* --------------------------------------------------------------- Register
\* AuthService.Register: FindOne({$or: [{username}, {email}]}), then InsertOne(user),
\* two MongoDB calls of a request handler goroutine.

registerFrame == <<portfolio, orders, advOrders, pc, req, pos, res, eff, monVars,
                   histVars, feedVars, hubVars>>

\* users documents with the username or the email
FindUser(name, email) == {d \in users : d.username = name \/ d.email = email}

\* POST /api/auth/register: AuthHandler.Register calls AuthService.Register(user)
StartRegister(r, name, email) ==
    /\ reg[r].pc = "idle"
    /\ reg' = [reg EXCEPT ![r] = [pc |-> "reg_find", username |-> name,
                                  email |-> email, res |-> ""]]
    /\ UNCHANGED <<cash, users, registerFrame>>

\* Register: FindOne: err == nil -> "username or email already exists";
\* mongo.ErrNoDocuments -> go on to hash the password and insert
RegisterFind(r) ==
    /\ reg[r].pc = "reg_find"
    /\ reg' = [reg EXCEPT ![r] =
                  IF FindUser(reg[r].username, reg[r].email) # {}
                  THEN [@ EXCEPT !.pc = "ret", !.res = "already_exists"]
                  ELSE [@ EXCEPT !.pc = "reg_insert"]]
    /\ UNCHANGED <<cash, users, registerFrame>>

\* Register: user.ID = NewObjectID(); user.CashBalance = 10000.0; InsertOne(user)
RegisterInsert(r) ==
    /\ reg[r].pc = "reg_insert"
    /\ Cardinality(users) - Cardinality(Accounts) < MaxRegistrations
    /\ LET id == NewUserIds[Cardinality(users) - Cardinality(Accounts) + 1]
       IN  /\ users' = users \cup {[id |-> id, username |-> reg[r].username,
                                    email |-> reg[r].email]}
           /\ cash' = [u \in DOMAIN cash \cup {id} |->
                          IF u = id THEN InitialBalance ELSE cash[u]]
    /\ reg' = [reg EXCEPT ![r] = [@ EXCEPT !.pc = "ret", !.res = "ok"]]
    /\ UNCHANGED registerFrame

\* AuthHandler.Register answers (201 or 400) and the goroutine ends
RegisterRespond(r) ==
    /\ reg[r].pc = "ret"
    /\ reg' = [reg EXCEPT ![r] = NoReg]
    /\ UNCHANGED <<cash, users, registerFrame>>

NextRegister ==
    \/ \E r \in Registrars, name \in Usernames, email \in Emails :
          StartRegister(r, name, email)
    \/ \E r \in Registrars : RegisterFind(r)
    \/ \E r \in Registrars : RegisterInsert(r)
    \/ \E r \in Registrars : RegisterRespond(r)

SpecRegister == Init /\ [][NextRegister]_vars

\* ------------------------------------------------------- price service calls
\* The accesses one call of GetStockPrice or GetMockStockPrice makes to the fields of
\* the one MarketDataService main creates; the service has no mutex.  svcPc[g] names
\* the access goroutine g makes next, or "real_call" while its HTTP request runs.

otherVars == <<ledgerVars, advOrders, pc, req, pos, res, eff, monVars, histVars, hubVars, authVars>>

\* the accesses to m.useMockData / m.lastAPISuccess and to m.mockPrices
FlagReads == {"flag_read"}
FlagWrites == {"flag_write_ok", "flag_write_fail"}
MapReads == {"mock_read"}
MapWrites == {"mock_write"}

\* two accesses to the same field, one of them a write
Conflict(a, b) ==
    \/ a \in FlagWrites /\ b \in FlagReads \cup FlagWrites
    \/ b \in FlagWrites /\ a \in FlagReads \cup FlagWrites
    \/ a \in MapWrites /\ b \in MapReads \cup MapWrites
    \/ b \in MapWrites /\ a \in MapReads \cup MapWrites

\* a goroutine calls GetStockPrice: simulateMarketData for its initial data, a request
\* handler for GET /api/stocks/:symbol, the monitor for an active order of its tick
StartGetStockPrice(g) ==
    /\ svcPc[g] = "idle"
    /\ g = "monitor" => ActiveSnapshot # <<>>
    /\ svcPc' = [svcPc EXCEPT ![g] = "flag_read"]
    /\ UNCHANGED <<useMockData, otherVars>>

\* a goroutine calls GetMockStockPrice: simulateMarketData on its 3 s ticker, a request
\* handler through GetPortfolio
StartGetMockStockPrice(g) ==
    /\ g \in {"simulator", "handler"}
    /\ svcPc[g] = "idle"
    /\ svcPc' = [svcPc EXCEPT ![g] = "mock_read"]
    /\ UNCHANGED <<useMockData, otherVars>>

\* GetStockPrice: if !m.useMockData || time.Since(m.lastAPISuccess) > 30*time.Minute
ReadFlag(g) ==
    /\ svcPc[g] = "flag_read"
    /\ \E stale \in BOOLEAN :
          svcPc' = [svcPc EXCEPT ![g] = IF ~useMockData \/ stale THEN "real_call"
                                        ELSE "mock_read"]
    /\ UNCHANGED <<useMockData, otherVars>>

\* GetStockPrice: getRealStockPrice returns, with a quote or with an error
RealCall(g) ==
    /\ svcPc[g] = "real_call"
    /\ \E next \in FlagWrites : svcPc' = [svcPc EXCEPT ![g] = next]
    /\ UNCHANGED <<useMockData, otherVars>>

\* GetStockPrice: m.lastAPISuccess = time.Now(); m.useMockData = false; return, or
\* m.useMockData = true and on to getMockStockPrice
WriteFlag(g) ==
    /\ svcPc[g] \in FlagWrites
    /\ useMockData' = (svcPc[g] = "flag_write_fail")
    /\ svcPc' = [svcPc EXCEPT ![g] = IF svcPc[g] = "flag_write_fail" THEN "mock_read"
                                     ELSE "idle"]
    /\ UNCHANGED otherVars

\* getMockStockPrice / GetMockStockPrice: basePrice, exists := m.mockPrices[symbol]
ReadMock(g) ==
    /\ svcPc[g] = "mock_read"
    /\ svcPc' = [svcPc EXCEPT ![g] = "mock_write"]
    /\ UNCHANGED <<useMockData, otherVars>>

\* getMockStockPrice / GetMockStockPrice: m.mockPrices[symbol] = newPrice; return
WriteMock(g) ==
    /\ svcPc[g] = "mock_write"
    /\ svcPc' = [svcPc EXCEPT ![g] = "idle"]
    /\ UNCHANGED <<useMockData, otherVars>>

\* two goroutines are in the map m.mockPrices at once, one of them writing: the Go
\* runtime may detect it and end the process ("fatal error: concurrent map writes"),
\* or not, and the calls go on
RuntimeThrow ==
    /\ \E g, h \in PriceCallers :
          /\ g # h
          /\ svcPc[g] \in MapWrites
          /\ svcPc[h] \in MapReads \cup MapWrites
    /\ svcPc' = [g \in PriceCallers |-> "crashed"]
    /\ UNCHANGED <<useMockData, otherVars>>

\* The callers of the price service, with the conditional orders that make the
\* monitor ask for prices.
NextPrice ==
    \/ \E u \in Accounts, s \in Symbols, sh \in StopShapes :
          CreateStopOrder(u, s, "buy", sh[1], sh[2], sh[3], sh[4], sh[5])
    \/ \E g \in PriceCallers : StartGetStockPrice(g)
    \/ \E g \in PriceCallers : StartGetMockStockPrice(g)
    \/ \E g \in PriceCallers : ReadFlag(g)
    \/ \E g \in PriceCallers : RealCall(g)
    \/ \E g \in PriceCallers : WriteFlag(g)
    \/ \E g \in PriceCallers : ReadMock(g)
    \/ \E g \in PriceCallers : WriteMock(g)
    \/ RuntimeThrow

SpecPrice == Init /\ [][NextPrice]_vars

\* ------------------------------------------------------------- websocket hub
\* WebSocketHub.Run serves one channel operation at a time; register, unregister and
\* broadcast are unbuffered, so each send on them and the hub's handling of it is one
\* step.  A stock update is modelled by its number in the order of the broadcasts.

\* client.send <- message
EnqueueFront(q, m) == <<m>> \o q
Enqueue(q, m) == Append(q, m)

\* the clients whose send channel has room: select { case client.send <- message: ... }
HasRoom(c) == Len(send[c]) < SendCap

\* GET /ws: RegisterClient sends the new client on h.register, Run stores it
HubRegister(c) ==
    /\ conn[c] = "none"
    /\ conn' = [conn EXCEPT ![c] = "open"]
    /\ clients' = clients \cup {c}
    /\ joined' = [joined EXCEPT ![c] = updates]
    /\ UNCHANGED <<send, sendClosed, taken, updates>>
    /\ UNCHANGED <<ledgerVars, advOrders, pc, req, pos, res, eff, monVars, histVars, feedVars, authVars>>

\* ReadPump ends: it sends the client on h.unregister; Run deletes the client and
\* closes its send channel if it still has it
HubUnregister(c) ==
    /\ conn[c] = "open"
    /\ conn' = [conn EXCEPT ![c] = "done"]
    /\ clients' = clients \ {c}
    /\ sendClosed' = IF c \in clients THEN sendClosed \cup {c} ELSE sendClosed
    /\ UNCHANGED <<send, taken, joined, updates>>
    /\ UNCHANGED <<ledgerVars, advOrders, pc, req, pos, res, eff, monVars, histVars, feedVars, authVars>>

\* the broadcast case of Run without delete(h.clients, client) after close(client.send)
HubBroadcastKeepClosed ==
    /\ updates < MaxUpdates
    /\ updates' = updates + 1
    /\ send' = [c \in Clients |->
                  IF c \in clients /\ HasRoom(c) THEN Enqueue(send[c], updates + 1)
                  ELSE send[c]]
    /\ sendClosed' = sendClosed \cup {c \in clients : ~HasRoom(c)}
    /\ UNCHANGED <<clients, conn, taken, joined>>
    /\ UNCHANGED <<ledgerVars, advOrders, pc, req, pos, res, eff, monVars, histVars, feedVars, authVars>>

\* simulateMarketData: hub.BroadcastStock(stock); Run marshals the update and offers it
\* to every client: a client whose send channel is full is closed and deleted
HubBroadcast ==
    /\ updates < MaxUpdates
    /\ updates' = updates + 1
    /\ send' = [c \in Clients |->
                  IF c \in clients /\ HasRoom(c) THEN Enqueue(send[c], updates + 1)
                  ELSE send[c]]
    /\ clients' = {c \in clients : HasRoom(c)}
    /\ sendClosed' = sendClosed \cup {c \in clients : ~HasRoom(c)}
    /\ UNCHANGED <<conn, taken, joined>>
    /\ UNCHANGED <<ledgerVars, advOrders, pc, req, pos, res, eff, monVars, histVars, feedVars, authVars>>

\* WritePump: message, ok := <-c.send with a message in the channel
WritePump(c) ==
    /\ send[c] # <<>>
    /\ taken' = [taken EXCEPT ![c] = Append(@, Head(send[c]))]
    /\ send' = [send EXCEPT ![c] = Tail(@)]
    /\ UNCHANGED <<clients, sendClosed, conn, joined, updates>>
    /\ UNCHANGED <<ledgerVars, advOrders, pc, req, pos, res, eff, monVars, histVars, feedVars, authVars>>

NextHub ==
    \/ \E c \in Clients : HubRegister(c)
    \/ \E c \in Clients : HubUnregister(c)
    \/ HubBroadcast
    \/ \E c \in Clients : WritePump(c)

SpecHub == Init /\ [][NextHub]_vars

\* ------------------------------------------------------------------ claims

\* the conditional orders registered so far
Registered == 1..Len(advOrders)

Terminal(status) == status \in {"triggered", "cancelled"}

\* execution records in the orders collection that stem from conditional order id
FillsOf(id) ==
    LET recs == {r \in BagToSet(orders) : r.src = id}
    IN  IF recs = {} THEN 0
        ELSE LET RECURSIVE Sum(_)
                 Sum(S) == IF S = {} THEN 0
                           ELSE LET r == CHOOSE x \in S : TRUE
                                IN  CopiesIn(r, orders) + Sum(S \ {r})
             IN  Sum(recs)

\* C1: once a conditional order is `triggered` or `cancelled`, no step changes its
\* state again (no triggered -> cancelled and no cancelled -> triggered step).
C1_TerminalIsFinal ==
    [][\A id \in Registered :
          Terminal(advOrders[id].status) => advOrders'[id].status = advOrders[id].status]_vars

\* C2: a conditional order whose Cancel returned success is never afterwards marked
\* `triggered` and the monitor never afterwards starts or records a fill for it.
C2_CancelWins ==
    [][\A id \in cancelOk :
          /\ advOrders'[id].status = "triggered" => advOrders[id].status = "triggered"
          /\ execCalls'[id] = execCalls[id]
          /\ FillsOf(id)' = FillsOf(id)]_vars

\* C3: every conditional order leads to at most one PlaceOrder (Execute) call and to at
\* most one execution record, whatever ticks, cancels and user orders interleave.
C3_AtMostOneFill ==
    \A id \in OrderIds : execCalls[id] <= 1 /\ FillsOf(id) <= 1

\* C3's case: an order has fired and filled, was cancelled as well, a user order ran,
\* and the monitor is between ticks again.
C3_Witness ==
    \E id \in Registered :
        /\ execCalls[id] = 1
        /\ FillsOf(id) = 1
        /\ id \in cancelOk
        /\ pc[Monitor] = "idle"
        /\ \E r \in BagToSet(orders) : r.src = 0

\* C4: no account's cash balance is ever negative.
C4_CashNonNegative == \A u \in Accounts : cash[u] >= 0

\* the ledger as the calls' results show it: balances and positions without their _id
Positions(pf) == {[user |-> r.user, symbol |-> r.symbol, shares |-> r.shares, avg |-> r.avg] : r \in pf}
LedgerView == [cash |-> cash, positions |-> Positions(portfolio), count |-> Cardinality(portfolio)]

\* PlaceOrder(o) run alone, start to end, on ledger L (no other call in between)
SerialPlaceOrder(L, o) ==
    LET held == {r \in L.positions : r.user = o.user /\ r.symbol = o.symbol}
    IN  IF o.type = "buy"
        THEN IF L.cash[o.user] < Cost(o) THEN L
             ELSE LET pf == IF held = {}
                            THEN L.positions \cup {[user |-> o.user, symbol |-> o.symbol,
                                                    shares |-> o.quantity, avg |-> <<o.price, 1>>]}
                            ELSE (L.positions \ held) \cup
                                 {[r EXCEPT !.shares = r.shares + o.quantity,
                                            !.avg = NewAvg(r, o)] : r \in held}
                  IN  [cash |-> [L.cash EXCEPT ![o.user] = @ - Cost(o)],
                       positions |-> pf, count |-> Cardinality(pf)]
        ELSE IF held = {} \/ \E r \in held : r.shares < o.quantity THEN L
             ELSE LET pf == (L.positions \ held) \cup
                            {[r EXCEPT !.shares = r.shares - o.quantity] :
                                 r \in {x \in held : x.shares # o.quantity}}
                  IN  [cash |-> [L.cash EXCEPT ![o.user] = @ + Revenue(o)],
                       positions |-> pf, count |-> Cardinality(pf)]

InitialLedger == [cash |-> [u \in Accounts |-> InitialBalance], positions |-> {}, count |-> 0]

\* C5: when the first two PlaceOrder calls of a run, made by two request handlers on
\* the same account, have both returned, balance and positions are what running the
\* two calls one after the other, in one of the two orders, gives.
C5_Serializable ==
    (/\ ncalls = 2
     /\ pc["w1"] = "ret" /\ pc["w2"] = "ret"
     /\ req["w1"].user = req["w2"].user)
    => \/ LedgerView = SerialPlaceOrder(SerialPlaceOrder(InitialLedger, req["w1"]), req["w2"])
       \/ LedgerView = SerialPlaceOrder(SerialPlaceOrder(InitialLedger, req["w2"]), req["w1"])

\* C6: when a PlaceOrder call has returned, its execution record exists if and only
\* if both its position write and its balance write took effect.
C6_RecordIffLedger ==
    \A p \in Procs : pc[p] = "ret" => (eff[p].rec <=> (eff[p].pos /\ eff[p].bal))

\* C7: a PlaceOrder call that returned an error has changed neither a position nor
\* the balance.
C7_FailedCallChangesNothing ==
    \A p \in Procs : (pc[p] = "ret" /\ res[p] # "ok") => (~eff[p].pos /\ ~eff[p].bal)

\* C8: the step that completes a successful buy lowers the buyer's balance by exactly
\* quantity * price, the step that completes a successful sell raises the seller's by
\* exactly quantity * price.
C8_FillMovesCashByAmount ==
    [][\A p \in Procs :
          (pc[p] \in {"buy_bal", "sell_bal"} /\ pc'[p] = "ret" /\ res'[p] = "ok")
          => cash'[req[p].user] =
                 IF req[p].type = "buy"
                 THEN cash[req[p].user] - req[p].quantity * req[p].price
                 ELSE cash[req[p].user] + req[p].quantity * req[p].price]_vars

\* C8's case: a successful buy and a successful sell have both just returned.
C8_Witness ==
    /\ \E p \in Procs : pc[p] = "ret" /\ res[p] = "ok" /\ req[p].type = "buy" /\ eff[p].bal
    /\ \E p \in Procs : pc[p] = "ret" /\ res[p] = "ok" /\ req[p].type = "sell" /\ eff[p].bal

\* the execution records of account u in symbol s
RecordsOf(u, s) == {r \in BagToSet(orders) : r.user = u /\ r.symbol = s}

RECURSIVE TotalQuantity(_)
TotalQuantity(recs) ==
    IF recs = {} THEN 0
    ELSE LET r == CHOOSE x \in recs : TRUE
         IN  CopiesIn(r, orders) * r.quantity + TotalQuantity(recs \ {r})

RECURSIVE TotalCost(_)
TotalCost(recs) ==
    IF recs = {} THEN 0
    ELSE LET r == CHOOSE x \in recs : TRUE
         IN  CopiesIn(r, orders) * r.quantity * r.price + TotalCost(recs \ {r})

\* C9: after buys only, run one after the other and all successful, the account holds
\* one position of the symbol, its shares are the sum of the bought quantities and
\* avg_cost * shares is the sum of quantity * price paid.
C9_WeightedAverage ==
    \A u \in Accounts, s \in Symbols :
        LET recs == RecordsOf(u, s)
        IN  (Quiet /\ recs # {} /\ \A r \in recs : r.type = "buy")
            => /\ Cardinality(FindPositions(u, s)) = 1
               /\ \A ps \in FindPositions(u, s) :
                     /\ ps.shares = TotalQuantity(recs)
                     /\ ps.avg[1] * ps.shares = TotalCost(recs) * ps.avg[2]

\* C9's case: two buys at different prices have completed and the average cost is
\* no whole number.
C9_Witness ==
    \E u \in Accounts, s \in Symbols :
        /\ Quiet
        /\ \A r \in RecordsOf(u, s) : r.type = "buy"
        /\ Cardinality(RecordsOf(u, s)) >= 2
        /\ \E ps \in FindPositions(u, s) : ps.shares = 3 /\ ps.avg[2] # 1

\* C10: every stored position document has shares >= 1.
C10_SharesPositive == \A r \in portfolio : r.shares >= 1

\* C10's case: a sell of all the shares held has returned and the position document
\* is gone.
C10_Witness ==
    \E p \in Procs :
        /\ pc[p] = "ret" /\ res[p] = "ok" /\ req[p].type = "sell" /\ eff[p].pos
        /\ FindPositions(req[p].user, req[p].symbol) = {}

\* the position documents the sell of goroutine p is about
Held(p) == FindPositions(req[p].user, req[p].symbol)

\* C11: a sell of more shares than the position holds ends at its position read: it
\* returns "insufficient shares" (the read's own error when the read fails) and the
\* step changes no balance, no position and no execution record.
C11_OversellRejected ==
    [][\A p \in Procs :
          (/\ pc[p] = "sell_find" /\ pc'[p] # "sell_find"
           /\ Held(p) # {}
           /\ \A r \in Held(p) : r.shares < req[p].quantity)
          => /\ pc'[p] = "ret"
             /\ res'[p] \in {"insufficient_shares", "db_error"}
             /\ eff'[p] = NoEff
             /\ UNCHANGED ledgerVars]_vars

\* C11's case: a sell of 2 shares returned "insufficient shares" while 1 share is held.
C11_Witness ==
    \E p \in Procs :
        /\ pc[p] = "ret" /\ res[p] = "insufficient_shares"
        /\ Held(p) # {}
        /\ \A r \in Held(p) : r.shares >= 1 /\ r.shares < req[p].quantity

\* C12: a sell of a symbol the account has no position document for ends at its
\* position read: it returns "you own no ..." (the read's own error when the read
\* fails) and the step changes no balance, no position and no execution record.
C12_NoPositionRejected ==
    [][\A p \in Procs :
          (pc[p] = "sell_find" /\ pc'[p] # "sell_find" /\ Held(p) = {})
          => /\ pc'[p] = "ret"
             /\ res'[p] \in {"no_position", "db_error"}
             /\ eff'[p] = NoEff
             /\ UNCHANGED ledgerVars]_vars

\* C12's case: a sell returned "you own no ..." and the account holds no position.
C12_Witness ==
    \E p \in Procs :
        /\ pc[p] = "ret" /\ res[p] = "no_position" /\ req[p].type = "sell"
        /\ Held(p) = {}
        /\ eff[p] = NoEff

\* C13: the funds check of a buy returns "insufficient funds", with no balance,
\* position or execution record changed, when quantity * price exceeds the account's
\* balance, and does not return it when quantity * price is within the balance.
C13_FundsCheck ==
    [][\A p \in Procs :
          (pc[p] = "buy_cash" /\ pc'[p] # "buy_cash")
          => IF cash[req[p].user] < req[p].quantity * req[p].price
             THEN /\ pc'[p] = "ret"
                  /\ res'[p] = "insufficient_funds"
                  /\ eff'[p] = NoEff
                  /\ UNCHANGED ledgerVars
             ELSE res'[p] # "insufficient_funds"]_vars

\* C14: a Cancel of a conditional order that is not `active` does not succeed and
\* leaves the registry as it is.
C14_CancelOnlyActive ==
    [][\A id \in Registered :
          advOrders[id].status # "active"
          => /\ id \in cancelOk' => id \in cancelOk
             /\ advOrders'[id].status = "cancelled" => advOrders[id].status = "cancelled"]_vars

\* an instruction Execute has to turn down
InvalidOrder(o) == o.quantity <= 0 \/ o.price <= 0 \/ o.type \notin {"buy", "sell"}

\* C15: an instruction with quantity <= 0, price <= 0 or a side other than buy and
\* sell, from a request or from the monitor, is turned down as invalid: it is never
\* inside executeBuyOrder / executeSellOrder and has written nothing.
C15_InvalidRejected ==
    \A p \in Procs :
        (pc[p] \in CallPcs \cup {"ret"} /\ InvalidOrder(req[p]))
        => /\ pc[p] = "ret"
           /\ res[p] \in {"invalid_request", "invalid_order_type"}
           /\ eff[p] = NoEff

\* C18: every registered conditional order has a kind among stop, stop_limit,
\* trailing_stop and a side among buy, sell, and every order stored as active is in
\* the snapshot the monitor's scan takes.
C18_OnlyValidKindsStored ==
    \A id \in Registered :
        /\ advOrders[id].orderType \in {"stop", "stop_limit", "trailing_stop"}
        /\ advOrders[id].type \in {"buy", "sell"}
        /\ advOrders[id].status = "active"
           => \E i \in 1..Len(ActiveSnapshot) : ActiveSnapshot[i] = id

\* the ledger SpecPair starts from
PairLedger ==
    [cash |-> [u \in TwoAccounts |->
                  IF u = EarlierBuy.user THEN InitialBalance - Cost(EarlierBuy)
                  ELSE InitialBalance],
     positions |-> {[user |-> EarlierBuy.user, symbol |-> EarlierBuy.symbol,
                     shares |-> EarlierBuy.quantity, avg |-> <<EarlierBuy.price, 1>>]},
     count |-> 1]

\* the position documents of account u
PositionsOf(u) == {r \in portfolio : r.user = u}

\* C16: a step of a PlaceOrder call for one account changes neither the balance nor a
\* position of another account, and when two calls for different accounts have both
\* returned, the ledger is the one either serial order of the two calls gives.
C16_AccountsIndependent ==
    /\ [][\A p \in Procs : \A u \in TwoAccounts :
             (InCall(p) /\ pc'[p] # pc[p] /\ u # req[p].user)
             => cash'[u] = cash[u] /\ PositionsOf(u)' = PositionsOf(u)]_vars
    /\ []((/\ ncalls = 2
           /\ pc["w1"] = "ret" /\ pc["w2"] = "ret"
           /\ req["w1"].user # req["w2"].user)
          => /\ LedgerView = SerialPlaceOrder(SerialPlaceOrder(PairLedger, req["w1"]), req["w2"])
             /\ LedgerView = SerialPlaceOrder(SerialPlaceOrder(PairLedger, req["w2"]), req["w1"]))

\* C16's case: a sell for one account and a buy for the other, run at the same time,
\* have both returned success.
C16_Witness ==
    /\ ncalls = 2
    /\ pc["w1"] = "ret" /\ pc["w2"] = "ret"
    /\ res["w1"] = "ok" /\ res["w2"] = "ok"
    /\ req["w1"].user # req["w2"].user
    /\ req["w1"].type = "sell" /\ req["w2"].type = "buy"
    /\ eff["w1"].bal /\ eff["w2"].bal

\* C17: the step that registers a sell-side conditional order happens only while a
\* position document of the account holds at least its quantity, registers it as
\* active, and changes no balance, no position and no execution record.
C17_SellStopNeedsShares ==
    [][Len(advOrders') = Len(advOrders) + 1
       => LET o == advOrders'[Len(advOrders')]
          IN  /\ o.type = "sell"
                 => \E r \in FindPositions(o.user, o.symbol) : r.shares >= o.quantity
              /\ o.status = "active"
              /\ UNCHANGED ledgerVars]_vars

\* C17's case: a sell-side order was accepted, the shares were sold by a user order
\* afterwards and the conditional order is still active.
C17_Witness ==
    \E id \in Registered :
        /\ advOrders[id].type = "sell"
        /\ advOrders[id].status = "active"
        /\ FindPositions(advOrders[id].user, advOrders[id].symbol) = {}
        /\ \E r \in BagToSet(orders) : r.type = "sell" /\ r.src = 0

\* the updates client c was given so far, in the order it was given them
Given(c) == taken[c] \o send[c]

C20_FeedFailureSkips ==
    [][(pc[Monitor] = "mon_loop" /\ ~useMockData /\ useMockData')
       => pc'[Monitor] # "mon_mark" /\ advOrders' = advOrders]_vars

\* C21: when the PlaceOrder call the monitor made for a conditional order has
\* returned an error, the order is not back to `active`, and the call has changed
\* neither a position nor the balance.
C21_FailedFillLeavesTriggered ==
    (pc[Monitor] = "ret" /\ res[Monitor] # "ok")
    => /\ advOrders[req[Monitor].src].status # "active"
       /\ ~eff[Monitor].pos /\ ~eff[Monitor].bal

\* the owner of order o can pay for it (buy) or holds the shares it sells (sell)
CanCover(o) ==
    IF o.type = "buy" THEN cash[o.user] >= Cost(o)
    ELSE \E r \in FindPositions(o.user, o.symbol) : r.shares >= o.quantity

StopFires(o, price) ==
    IF o.type = "sell" THEN price <= o.stopPrice ELSE price >= o.stopPrice

\* C23: for every registered order of kind stop or trailing_stop and every price,
\* shouldTriggerStopOrder is true exactly when price <= stop_price (sell side) or
\* price >= stop_price (buy side), the same for both kinds; and the monitor is about to
\* mark such an order triggered only at a price for which this is true.
C23_StopPredicate ==
    \A id \in Registered :
        LET o == advOrders[id]
        IN  /\ \A price \in TriggerPrices :
                  /\ o.orderType \in {"stop", "trailing_stop"}
                        => (shouldTriggerStopOrder(o, price) <=> StopFires(o, price))
                  /\ shouldTriggerStopOrder([o EXCEPT !.orderType = "trailing_stop"], price)
                        <=> shouldTriggerStopOrder([o EXCEPT !.orderType = "stop"], price)
            /\ (/\ pc[Monitor] = "mon_mark" /\ Head(activeOrders) = id
                /\ o.orderType \in {"stop", "trailing_stop"})
               => StopFires(o, currentPrice)

\* C23's case: a trailing-stop sell order fires at a price equal to its stop price.
C23_Witness ==
    /\ pc[Monitor] = "mon_mark"
    /\ advOrders[Head(activeOrders)].orderType = "trailing_stop"
    /\ advOrders[Head(activeOrders)].type = "sell"
    /\ currentPrice = advOrders[Head(activeOrders)].stopPrice

\* the trigger condition of a stop-limit order at a price
StopLimitFires(o, price) ==
    IF o.type = "sell" THEN o.limitPrice <= price /\ price <= o.stopPrice
    ELSE o.stopPrice <= price /\ price <= o.limitPrice

\* C24: for every registered order of kind stop_limit and every price,
\* shouldTriggerStopOrder is true exactly when limit_price <= price <= stop_price
\* (sell side) or stop_price <= price <= limit_price (buy side), a limit price of 0
\* included; and the monitor is about to mark such an order triggered only at a
\* price for which this is true.
C24_StopLimitPredicate ==
    \A id \in Registered :
        LET o == advOrders[id]
        IN  o.orderType = "stop_limit"
            => /\ \A price \in TriggerPrices :
                     shouldTriggerStopOrder(o, price) <=> StopLimitFires(o, price)
               /\ (pc[Monitor] = "mon_mark" /\ Head(activeOrders) = id)
                  => StopLimitFires(o, currentPrice)

\* C24's case: a stop-limit sell order registered without a limit price (0) fires at
\* a price below its stop price.
C24_Witness ==
    /\ pc[Monitor] = "mon_mark"
    /\ advOrders[Head(activeOrders)].orderType = "stop_limit"
    /\ advOrders[Head(activeOrders)].type = "sell"
    /\ advOrders[Head(activeOrders)].limitPrice = 0
    /\ currentPrice > 0 /\ currentPrice < advOrders[Head(activeOrders)].stopPrice

\* C25: a step that changes a balance or the positions is a portfolio write or a
\* balance write of a PlaceOrder call, made by a request handler or by the monitor for
\* a fired order; a step that registers, cancels, snapshots or marks triggered a
\* conditional order changes no balance and no position.
C25_LedgerChangesOnlyInExecute ==
    [][/\ (cash' # cash \/ portfolio' # portfolio)
          => \E p \in Procs : /\ pc[p] \in {"buy_pos", "buy_bal", "sell_pos", "sell_bal"}
                              /\ pc'[p] # pc[p]
       /\ (advOrders' # advOrders \/ cancelOk' # cancelOk \/ activeOrders' # activeOrders)
          => UNCHANGED <<cash, portfolio>>]_vars

\* C25's case: the fill of a fired order has moved the balance through the monitor's
\* PlaceOrder call, a request handler's fill has too, and a cancel has been accepted.
C25_Witness ==
    /\ pc[Monitor] = "ret" /\ eff[Monitor].bal
    /\ \E id \in Registered : FillsOf(id) = 1
    /\ \E r \in BagToSet(orders) : r.src = 0
    /\ cancelOk # {}

\* C26: a buy for an account with no users document is checked against the default
\* balance 10000: with cost <= 10000 it succeeds, inserting the execution record and
\* writing a position while no balance is written, with a higher cost it is rejected
\* for insufficient funds; no users document is created or changed, so the next buy
\* is checked against 10000 again.
C26_UnknownAccountBuys ==
    /\ cash = [u \in Accounts |-> InitialBalance]
    /\ \A p \in Procs :
          (pc[p] = "ret" /\ req[p].user = UnknownAccount /\ req[p].type = "buy")
          => IF Cost(req[p]) <= DefaultBalance
             THEN /\ res[p] = "ok"
                  /\ eff[p] = [rec |-> TRUE, pos |-> TRUE, bal |-> FALSE]
                  /\ CopiesIn(ExecRecord(req[p]), orders) >= 1
             ELSE res[p] = "insufficient_funds" /\ eff[p] = NoEff

\* C26's case: the account without a users document has bought for more than 10000
\* in all, the last buy having just succeeded, and holds the shares.
C26_Witness ==
    /\ \E p \in Procs : /\ pc[p] = "ret" /\ res[p] = "ok"
                        /\ req[p].user = UnknownAccount /\ req[p].type = "buy"
    /\ TotalCost({r \in BagToSet(orders) : r.user = UnknownAccount /\ r.type = "buy"})
           > DefaultBalance
    /\ \E r \in portfolio : r.user = UnknownAccount /\ r.shares = 4

\* the balance the execution records of account u account for
CashFromHistory(u) ==
    InitialBalance
    - TotalCost({r \in BagToSet(orders) : r.user = u /\ r.type = "buy"})
    + TotalCost({r \in BagToSet(orders) : r.user = u /\ r.type = "sell"})

\* C27: whenever no PlaceOrder call is in progress, every account's balance is 10000
\* minus quantity * price of its buy records plus quantity * price of its sell records.
C27_CashMatchesHistory ==
    Quiet => \A u \in Accounts : cash[u] = CashFromHistory(u)

\* the shares of the position documents in a set
RECURSIVE TotalShares(_)
TotalShares(docs) ==
    IF docs = {} THEN 0
    ELSE LET r == CHOOSE x \in docs : TRUE
         IN  r.shares + TotalShares(docs \ {r})

\* the shares the execution records of account u in symbol s account for
SharesFromHistory(u, s) ==
    TotalQuantity({r \in RecordsOf(u, s) : r.type = "buy"})
    - TotalQuantity({r \in RecordsOf(u, s) : r.type = "sell"})

\* C28: whenever no PlaceOrder call is in progress, the shares every account holds of
\* every symbol (0 with no position document) are the quantities of its buy records
\* minus the quantities of its sell records.
C28_SharesMatchHistory ==
    Quiet => \A u \in TwoAccounts, s \in Symbols :
                 TotalShares(FindPositions(u, s)) = SharesFromHistory(u, s)

\* C29: the portfolio collection holds at most one position document for every
\* account and symbol.
C29_OnePositionPerSymbol ==
    \A u \in Accounts, s \in Symbols : Cardinality(FindPositions(u, s)) <= 1

\* C30: while every cancel request comes from an account other than the creator of
\* the order it names, no conditional order is ever cancelled and no cancel request
\* is answered with success.
C30_ForeignCancelChangesNothing ==
    /\ cancelOk = {}
    /\ \A id \in Registered : advOrders[id].status # "cancelled"

\* the trigger predicate of order o holds at every price / at no price of the feed
AlwaysFires(o) == \A price \in TriggerPrices : shouldTriggerStopOrder(o, price)
NeverFires(o) == \A price \in TriggerPrices : ~shouldTriggerStopOrder(o, price)

\* C31: with the monitor ticking on, a stored conditional order whose trigger
\* predicate holds at every price of the feed becomes `triggered` in the end unless a
\* cancel request is accepted for it; one whose predicate holds at no price of the
\* feed is `active` for as long as no cancel request is accepted for it.
C31_FiresInTheEnd ==
    /\ AlwaysFires(advOrders[1])
          => <>(advOrders[1].status = "triggered" \/ 1 \in cancelOk)
    /\ NeverFires(advOrders[1])
          => [](advOrders[1].status = "active" \/ 1 \in cancelOk)

\* C31's case: an order whose predicate holds at every price has been marked
\* triggered with no cancel request accepted.
C31_Witness ==
    /\ AlwaysFires([advOrders[1] EXCEPT !.status = "active"])
    /\ advOrders[1].status = "triggered"
    /\ cancelOk = {}

\* C32: a client the hub has registered is in the hub's client set exactly while its
\* send channel is open; the hub closes a send channel only in the step that deletes
\* the client from the set, so never twice; a closed channel stays closed and gets no
\* further message; and an unregister for a client the hub has already dropped
\* changes neither the set nor any channel.
C32_ClosedOnceNeverSentAfter ==
    /\ [](\A c \in Clients :
             IF conn[c] = "none" THEN c \notin clients /\ c \notin sendClosed
             ELSE c \in clients <=> c \notin sendClosed)
    /\ [][\A c \in Clients :
             /\ c \in sendClosed => (c \in sendClosed' /\ Len(send'[c]) <= Len(send[c]))
             /\ (c \in sendClosed' /\ c \notin sendClosed)
                   => (c \in clients /\ c \notin clients')
             /\ (conn[c] = "open" /\ conn'[c] = "done" /\ c \notin clients)
                   => UNCHANGED <<clients, send, sendClosed>>]_vars

\* C32's case: one client's send channel is closed and full, an update was broadcast
\* that it was not given, and its unregister has been handled; another client, which
\* registered later, had its channel closed on its unregister before any update
\* reached it; and the hub has gone on broadcasting.
C32_Witness ==
    \E c, d \in Clients :
        /\ c # d
        /\ conn[c] = "done" /\ c \in sendClosed
        /\ Len(send[c]) = SendCap /\ taken[c] = <<>>
        /\ updates - joined[c] > SendCap
        /\ conn[d] = "done" /\ d \in sendClosed /\ send[d] = <<>> /\ taken[d] = <<>>
        /\ joined[d] > joined[c] /\ updates > joined[d]

\* C33: no two goroutines are at the same time at accesses to the same field of the
\* MarketDataService (useMockData and lastAPISuccess, or the map mockPrices) of which
\* one is a write, and the runtime never ends the process over the map.
C33_NoConcurrentAccess ==
    /\ \A g, h \in PriceCallers : g # h => ~Conflict(svcPc[g], svcPc[h])
    /\ \A g \in PriceCallers : svcPc[g] # "crashed"

\* C34: no two users documents share a username or an email.
C34_UniqueUsers ==
    \A d, e \in users :
        d # e => (d.username # e.username /\ d.email # e.email)

=============================================================================
